---- MODULE Spec2Model ----
(***************************************************************************)
(* Model of models/base.py: the selective-prefetch adapter classes         *)
(* TortoiseSchema and TortoiseListSchema.                                  *)
(*                                                                         *)
(* The adapter has three coroutine classmethods on TortoiseSchema          *)
(* (from_tortoise, from_queryset, from_queryset_single), one on            *)
(* TortoiseListSchema (from_queryset) and the synchronous accessor         *)
(* get_prefetch_fields.  Each coroutine evaluates get_prefetch_fields,     *)
(* unpacks the names into the object source's augmenting method            *)
(* (fetch_related on a model instance, prefetch_related on a queryset),    *)
(* suspends at the await, and on resumption passes what the await          *)
(* delivered to from_orm.                                                  *)
(*                                                                         *)
(* The object source (Tortoise ORM) and the converter (pydantic from_orm)  *)
(* are collaborators: what they deliver is an input of the step, drawn     *)
(* from small sets; the calls the adapter makes to them are recorded in    *)
(* log, one sequence per call, in program order.                           *)
(*                                                                         *)
(* config   - the Config attributes of every schema type, as they are now  *)
(* declared - the Config attributes as the schema types were declared      *)
(* calls    - per caller: idle, suspended at the await, or finished with   *)
(*            the value returned or the error raised                       *)
(* log      - per caller: the collaborator calls its coroutine has made    *)
(***************************************************************************)
EXTENDS Naturals, Sequences, FiniteSets, TLC

VARIABLES config, declared, calls, log

vars == <<config, declared, calls, log>>

(***************************************************************************)
(* Bounds.                                                                 *)
(***************************************************************************)
\* Number of distinct records (primary keys) the object source can deliver.
MaxRecords == 2
\* Longest result list a multi-record queryset resolves to.
MaxResult == 2

RecordIds == 1..MaxRecords

\* Coroutines that can be in flight at the same time.
CallIds == {"c1", "c2"}

(***************************************************************************)
(* Schema types.  UserGet (id: int) and OptionalGet (every field optional) *)
(* subclass TortoiseSchema.  UserList and UserGetList subclass             *)
(* TortoiseListSchema: UserList declares its root as the class docstring   *)
(* does (__root__: UserGet), UserGetList as a list (__root__:              *)
(* List[UserGet]).                                                         *)
(***************************************************************************)
SchemaTypes ==
    [UserGet     |-> [base |-> "TortoiseSchema", required |-> TRUE],
     OptionalGet |-> [base |-> "TortoiseSchema", required |-> FALSE],
     UserList    |-> [base |-> "TortoiseListSchema", root |-> "item"],
     UserGetList |-> [base |-> "TortoiseListSchema", root |-> "list"]]

Schemas == DOMAIN SchemaTypes

SchemaBase(cls) == SchemaTypes[cls].base

\* A value of Config.fetch_fields (Iterable[str]): a list, which can be
\* iterated any number of times, or an iterator, which yields its names once.
Iterable(kind, names) == [kind |-> kind, names |-> names]

\* The Config attribute sets a schema type can carry: fetch_fields is either
\* not defined at all, or an iterable of relation names (nested names allowed,
\* duplicates and order are not constrained).
ConfigChoices ==
    << [orm_mode |-> TRUE],
       [orm_mode |-> TRUE, fetch_fields |-> Iterable("list", <<"customer">>)],
       [orm_mode |-> TRUE, fetch_fields |-> Iterable("list", <<>>)],
       [orm_mode |-> TRUE, fetch_fields |-> Iterable("list", <<"a", "a__b">>)],
       [orm_mode |-> TRUE, fetch_fields |-> Iterable("list", <<"a__b", "a", "a">>)],
       [orm_mode |-> TRUE, fetch_fields |-> Iterable("iterator", <<"customer">>)] >>

\* The k-th choice, counting cyclically.
Choice(k) == ConfigChoices[((k - 1) % Len(ConfigChoices)) + 1]

\* The schema-type configurations checked: every schema type carries every
\* choice in one of them.
Configurations ==
    { [UserGet |-> Choice(k), OptionalGet |-> Choice(k + 1),
       UserList |-> Choice(k + 3), UserGetList |-> Choice(k + 4)] :
        k \in 1..Len(ConfigChoices) }

(***************************************************************************)
(* Values passed between the adapter and its collaborators.  Every value   *)
(* is a record with a kind field.                                          *)
(***************************************************************************)
None == [kind |-> "None"]

Error(name) == [kind |-> "error", name |-> name]

IsError(v) == v.kind = "error"

\* A model instance: its primary key, whether its field values pass the
\* converter's validation, and the relations populated on it.
Model(id, valid, fetched) ==
    [kind |-> "model", id |-> id, valid |-> valid, fetched |-> fetched]

ListOf(items) == [kind |-> "list", items |-> items]

Range(s) == { s[i] : i \in DOMAIN s }

(***************************************************************************)
(* get_prefetch_fields: getattr(cls.__config__, "fetch_fields", []).  It   *)
(* returns the attribute itself, not a copy.                               *)
(***************************************************************************)
getattr(obj, name, default) ==
    IF name \in DOMAIN obj THEN obj[name] ELSE default

get_prefetch_fields_all(cls) ==
    getattr(config[cls], "fetch_fields",
            Iterable("list", <<"a", "a__b", "customer">>))

get_prefetch_fields(cls) ==
    getattr(config[cls], "fetch_fields", Iterable("list", <<>>))

\* *iterable in a call: the names the iterable yields now.
Unpack(it) == it.names

\* Unpacking runs an iterator to its end: it yields nothing afterwards.  A
\* list is left as it is, and so is a type that defines no fetch_fields (the
\* default [] is a fresh list).
ConfigAfterUnpack(cls) ==
    IF "fetch_fields" \in DOMAIN config[cls]
       /\ config[cls].fetch_fields.kind = "iterator"
    THEN [config EXCEPT ![cls].fetch_fields = Iterable("iterator", <<>>)]
    ELSE config

(***************************************************************************)
(* The converter, pydantic's BaseModel.from_orm, as the adapter uses it:   *)
(* it builds a schema instance of type cls from the attributes of obj or   *)
(* raises ValidationError.                                                 *)
(*  - A TortoiseSchema subclass reads its fields off obj.  From an object  *)
(*    without them (None) a type with a required field fails, a type whose *)
(*    fields are all optional is built from its defaults.                  *)
(*  - A TortoiseListSchema subclass validates obj as its root: a root      *)
(*    declared as UserGet accepts one model instance and rejects every     *)
(*    list, a root declared as List[UserGet] accepts a list of them.       *)
(***************************************************************************)
ItemOf(m) == [id |-> m.id, rels |-> m.fetched]

from_orm(cls, obj) ==
    IF SchemaBase(cls) = "TortoiseSchema"
    THEN IF obj.kind = "model"
         THEN IF obj.valid
              THEN [kind |-> "schema", type |-> cls, id |-> obj.id,
                    rels |-> obj.fetched]
              ELSE Error("ValidationError")
         ELSE IF SchemaTypes[cls].required
              THEN Error("ValidationError")
              ELSE [kind |-> "schema", type |-> cls, id |-> None, rels |-> {}]
    ELSE IF SchemaTypes[cls].root = "item"
         THEN IF obj.kind = "model" /\ obj.valid
              THEN [kind |-> "schema", type |-> cls, item |-> ItemOf(obj)]
              ELSE Error("ValidationError")
         ELSE IF obj.kind = "list" /\ \A i \in DOMAIN obj.items : obj.items[i].valid
              THEN [kind |-> "schema", type |-> cls,
                    root |-> [i \in DOMAIN obj.items |-> ItemOf(obj.items[i])]]
              ELSE Error("ValidationError")

(***************************************************************************)
(* What the object source can deliver.                                     *)
(***************************************************************************)
\* Model instances with exactly the requested relations populated.
Models(fields) ==
    { Model(id, valid, Range(fields)) : id \in RecordIds, valid \in BOOLEAN }

\* Ordered results of a multi-record queryset: distinct primary keys.
ResultLists(fields) ==
    UNION { { s \in [1..n -> Models(fields)] :
                \A i, j \in 1..n : i # j => s[i].id # s[j].id } :
            n \in 0..MaxResult }

\* prefetch_related / fetch_related rejecting its arguments.
AugmentErrors == { Error("FieldError") }

\* Failure of the awaited fetch.
ResolveErrors == { Error("OperationalError") }

QuerySet == [kind |-> "queryset"]

Coroutine == [kind |-> "coroutine"]

(***************************************************************************)
(* State of one coroutine call.                                            *)
(***************************************************************************)
Idle == [pc |-> "idle"]

Awaiting(op, cls) ==
    [pc |-> "awaiting", op |-> op, cls |-> cls]

Raise_swallowed(op, cls, e) ==
    [pc |-> "returned", op |-> op, cls |-> cls, value |-> ListOf(<<>>)]

\* No method has a try/except: an exception raised inside the coroutine is
\* the exception the caller gets.
Raise(op, cls, e) ==
    [pc |-> "raised", op |-> op, cls |-> cls, value |-> e]

Return(op, cls, v) ==
    [pc |-> "returned", op |-> op, cls |-> cls, value |-> v]

\* from_orm raising ends the coroutine with that error, otherwise its value
\* is the coroutine's return value.
ReturnOrRaise(op, cls, v) ==
    IF IsError(v) THEN Raise(op, cls, v) ELSE Return(op, cls, v)

\* method(*cls.get_prefetch_fields())
AugmentCall(name, cls, out) ==
    [ev |-> name, args |-> Unpack(get_prefetch_fields(cls)), out |-> out]

AwaitEvent(out) == [ev |-> "await", out |-> out]

AwaitEvents_twice(out) == <<AwaitEvent(out), AwaitEvent(out)>>

\* The coroutine awaits the augmented request once.
AwaitEvents(out) == <<AwaitEvent(out)>>

OrmCall(cls, arg) == [ev |-> "from_orm", cls |-> cls, arg |-> arg]

Init ==
    /\ config \in Configurations
    /\ declared = config
    /\ calls = [c \in CallIds |-> Idle]
    /\ log = [c \in CallIds |-> <<>>]

(***************************************************************************)
(* The first half of every coroutine: evaluate get_prefetch_fields, unpack *)
(* the names into the object source's augmenting method, and suspend at    *)
(* the await.  The augmenting method may reject the call, which ends the   *)
(* coroutine with that error.                                              *)
(***************************************************************************)
Augment(c, op, method, cls, handle) ==
    /\ calls[c].pc = "idle"
    /\ \E out \in {handle} \cup AugmentErrors :
         /\ log' = [log EXCEPT ![c] = <<AugmentCall(method, cls, out)>>]
         /\ calls' = [calls EXCEPT ![c] =
                        IF IsError(out)
                        THEN Raise(op, cls, out)
                        ELSE Awaiting(op, cls)]
    /\ config' = ConfigAfterUnpack(cls)
    /\ UNCHANGED declared

\* The names the object source was asked to populate for call c: each
\* request carries its own.
Requested(c) == log[c][1].args

(***************************************************************************)
(* TortoiseSchema.from_tortoise                                            *)
(***************************************************************************)
\* What awaiting model.fetch_related(...) delivers: an error, or the
\* instance refreshed in place together with the call's return value.
\* Tortoise's Model.fetch_related returns None; a source whose fetch_related
\* returns the instance is admitted as well.
FetchRelatedOutcomes(fields) ==
    ResolveErrors \cup
    { [kind |-> "fetched", instance |-> m, ret |-> None] : m \in Models(fields) } \cup
    { [kind |-> "fetched", instance |-> m, ret |-> m] : m \in Models(fields) }

from_tortoise(c, cls) ==
    /\ SchemaBase(cls) = "TortoiseSchema"
    /\ Augment(c, "from_tortoise", "fetch_related", cls, Coroutine)

\* return cls.from_orm(<value of the await>)
from_tortoise_return(cls, out) ==
    ReturnOrRaise("from_tortoise", cls, from_orm(cls, out.ret))

from_tortoise_resume(c) ==
    /\ calls[c].pc = "awaiting"
    /\ calls[c].op = "from_tortoise"
    /\ LET cls == calls[c].cls IN
       \E out \in FetchRelatedOutcomes(Requested(c)) :
         IF IsError(out)
         THEN /\ log' = [log EXCEPT ![c] = @ \o AwaitEvents(out)]
              /\ calls' = [calls EXCEPT ![c] = Raise("from_tortoise", cls, out)]
         ELSE /\ log' = [log EXCEPT ![c] =
                           @ \o AwaitEvents(out) \o <<OrmCall(cls, out.ret)>>]
              /\ calls' = [calls EXCEPT ![c] = from_tortoise_return(cls, out)]
    /\ UNCHANGED <<config, declared>>

(***************************************************************************)
(* TortoiseSchema.from_queryset                                            *)
(***************************************************************************)
\* What awaiting a multi-record queryset delivers.
QuerysetOutcomes(fields) ==
    ResolveErrors \cup { ListOf(s) : s \in ResultLists(fields) }

from_queryset(c, cls) ==
    /\ SchemaBase(cls) = "TortoiseSchema"
    /\ Augment(c, "from_queryset", "prefetch_related", cls, QuerySet)

\* [cls.from_orm(model) for model in <value of the await>]: the records are
\* converted in order; the first from_orm that raises ends the iteration.
RECURSIVE Comprehension(_, _, _, _)
Comprehension(cls, items, i, st) ==
    IF i > Len(items)
    THEN st
    ELSE LET v == from_orm(cls, items[i])
             ev == Append(st.events, OrmCall(cls, items[i]))
         IN IF IsError(v)
            THEN [events |-> ev, acc |-> st.acc, raised |-> v]
            ELSE Comprehension(cls, items, i + 1,
                   [events |-> ev, acc |-> Append(st.acc, v), raised |-> None])

Reverse(q) == [i \in 1..Len(q) |-> q[Len(q) + 1 - i]]

from_queryset_return_reversed(cls, st) ==
    IF IsError(st.raised)
    THEN Raise("from_queryset", cls, st.raised)
    ELSE Return("from_queryset", cls, ListOf(Reverse(st.acc)))

from_queryset_return(cls, st) ==
    IF IsError(st.raised)
    THEN Raise("from_queryset", cls, st.raised)
    ELSE Return("from_queryset", cls, ListOf(st.acc))

from_queryset_resume(c) ==
    /\ calls[c].pc = "awaiting"
    /\ calls[c].op = "from_queryset"
    /\ LET cls == calls[c].cls IN
       \E out \in QuerysetOutcomes(Requested(c)) :
         IF IsError(out)
         THEN /\ log' = [log EXCEPT ![c] = @ \o AwaitEvents(out)]
              /\ calls' = [calls EXCEPT ![c] = Raise("from_queryset", cls, out)]
         ELSE LET st == Comprehension(cls, out.items, 1,
                          [events |-> <<>>, acc |-> <<>>, raised |-> None])
              IN /\ log' = [log EXCEPT ![c] =
                              @ \o AwaitEvents(out) \o st.events]
                 /\ calls' = [calls EXCEPT ![c] = from_queryset_return(cls, st)]
    /\ UNCHANGED <<config, declared>>

(***************************************************************************)
(* TortoiseSchema.from_queryset_single                                     *)
(***************************************************************************)
\* What awaiting a single-record queryset delivers; zero or several matching
\* records are the object source's DoesNotExist / MultipleObjectsReturned.
SingleOutcomes(fields) ==
    ResolveErrors
      \cup {Error("DoesNotExist"), Error("MultipleObjectsReturned")}
      \cup Models(fields)

from_queryset_single(c, cls) ==
    /\ SchemaBase(cls) = "TortoiseSchema"
    /\ Augment(c, "from_queryset_single", "prefetch_related", cls, QuerySet)

from_queryset_single_return_listed(cls, out) ==
    IF IsError(from_orm(cls, out))
    THEN Raise("from_queryset_single", cls, from_orm(cls, out))
    ELSE Return("from_queryset_single", cls, ListOf(<<from_orm(cls, out)>>))

\* return cls.from_orm(<value of the await>)
from_queryset_single_return(cls, out) ==
    ReturnOrRaise("from_queryset_single", cls, from_orm(cls, out))

from_queryset_single_resume(c) ==
    /\ calls[c].pc = "awaiting"
    /\ calls[c].op = "from_queryset_single"
    /\ LET cls == calls[c].cls IN
       \E out \in SingleOutcomes(Requested(c)) :
         IF IsError(out)
         THEN /\ log' = [log EXCEPT ![c] = @ \o AwaitEvents(out)]
              /\ calls' = [calls EXCEPT ![c] =
                             Raise("from_queryset_single", cls, out)]
         ELSE /\ log' = [log EXCEPT ![c] =
                           @ \o AwaitEvents(out) \o <<OrmCall(cls, out)>>]
              /\ calls' = [calls EXCEPT ![c] =
                             from_queryset_single_return(cls, out)]
    /\ UNCHANGED <<config, declared>>

(***************************************************************************)
(* TortoiseListSchema.from_queryset                                        *)
(***************************************************************************)
\* The queryset passed in is the caller's: a multi-record one delivers a
\* list, a single-record one a model instance.
ListSchemaOutcomes(fields) == QuerysetOutcomes(fields) \cup Models(fields)

TortoiseListSchema_from_queryset(c, cls) ==
    /\ SchemaBase(cls) = "TortoiseListSchema"
    /\ Augment(c, "TortoiseListSchema.from_queryset", "prefetch_related",
               cls, QuerySet)

\* return cls.from_orm(<value of the await>): the whole value, in one call.
TortoiseListSchema_from_queryset_return(cls, out) ==
    ReturnOrRaise("TortoiseListSchema.from_queryset", cls, from_orm(cls, out))

TortoiseListSchema_from_queryset_resume(c) ==
    /\ calls[c].pc = "awaiting"
    /\ calls[c].op = "TortoiseListSchema.from_queryset"
    /\ LET cls == calls[c].cls IN
       \E out \in ListSchemaOutcomes(Requested(c)) :
         IF IsError(out)
         THEN /\ log' = [log EXCEPT ![c] = @ \o AwaitEvents(out)]
              /\ calls' = [calls EXCEPT ![c] =
                             Raise("TortoiseListSchema.from_queryset", cls, out)]
         ELSE /\ log' = [log EXCEPT ![c] =
                           @ \o AwaitEvents(out) \o <<OrmCall(cls, out)>>]
              /\ calls' = [calls EXCEPT ![c] =
                             TortoiseListSchema_from_queryset_return(cls, out)]
    /\ UNCHANGED <<config, declared>>

(***************************************************************************)
(* get_prefetch_fields called directly: synchronous, it returns in the     *)
(* same step, calls neither collaborator and iterates nothing.             *)
(***************************************************************************)
get_prefetch_fields_call(c, cls) ==
    /\ calls[c].pc = "idle"
    /\ calls' = [calls EXCEPT ![c] =
                   Return("get_prefetch_fields", cls, get_prefetch_fields(cls))]
    /\ UNCHANGED <<config, declared, log>>

(***************************************************************************)
(* The caller takes the outcome of a finished coroutine; nothing of the    *)
(* call remains.                                                           *)
(***************************************************************************)
Finished(c) == calls[c].pc \in {"returned", "raised"}

Release(c) ==
    /\ Finished(c)
    /\ calls' = [calls EXCEPT ![c] = Idle]
    /\ log' = [log EXCEPT ![c] = <<>>]
    /\ UNCHANGED <<config, declared>>

Next ==
    \/ \E c \in CallIds, cls \in Schemas : from_tortoise(c, cls)
    \/ \E c \in CallIds : from_tortoise_resume(c)
    \/ \E c \in CallIds, cls \in Schemas : from_queryset(c, cls)
    \/ \E c \in CallIds : from_queryset_resume(c)
    \/ \E c \in CallIds, cls \in Schemas : from_queryset_single(c, cls)
    \/ \E c \in CallIds : from_queryset_single_resume(c)
    \/ \E c \in CallIds, cls \in Schemas : TortoiseListSchema_from_queryset(c, cls)
    \/ \E c \in CallIds : TortoiseListSchema_from_queryset_resume(c)
    \/ \E c \in CallIds, cls \in Schemas : get_prefetch_fields_call(c, cls)
    \/ \E c \in CallIds : Release(c)

Spec == Init /\ [][Next]_vars

(***************************************************************************)
(* Vocabulary of the properties.                                           *)
(***************************************************************************)
\* The relation names a schema type is configured with: those of the
\* fetch_fields it was declared with, none when it declares no fetch_fields.
Configured(cls) ==
    IF "fetch_fields" \in DOMAIN declared[cls]
    THEN declared[cls].fetch_fields.names
    ELSE <<>>

\* Another coroutine is suspended at its await.
OtherInFlight(c) == \E d \in CallIds \ {c} : calls[d].pc = "awaiting"

\* Call c is a coroutine call (it has called the object source).
Started(c) == calls[c].pc # "idle" /\ calls[c].op # "get_prefetch_fields"

Done(c) == Finished(c) /\ calls[c].op # "get_prefetch_fields"

RequestOps ==
    {"from_queryset", "from_queryset_single", "TortoiseListSchema.from_queryset"}

\* Positions in c's log of the calls named name.
Positions(c, name) == { i \in DOMAIN log[c] : log[c][i].ev = name }

AugmentPositions(c) ==
    Positions(c, "fetch_related") \cup Positions(c, "prefetch_related")

\* The await of call c delivered a value (not an error).
Delivered(c) ==
    /\ Len(log[c]) >= 2
    /\ log[c][2].ev = "await"
    /\ ~IsError(log[c][2].out)

\* The collaborator call recorded as e raised / the error it raised.
EventFailed(e) ==
    IF e.ev = "from_orm" THEN IsError(from_orm(e.cls, e.arg)) ELSE IsError(e.out)

EventError(e) == IF e.ev = "from_orm" THEN from_orm(e.cls, e.arg) ELSE e.out

Failures(c) == { i \in DOMAIN log[c] : EventFailed(log[c][i]) }

Outcome(pc, value) == [pc |-> pc, value |-> value]

OutcomeOf(v) == IF IsError(v) THEN Outcome("raised", v) ELSE Outcome("returned", v)

\* The outcome of operation op of schema type cls executed on its own, given
\* what the object source answered (lg[1] the augmenting call, lg[2] the await).
RunAlone(op, cls, lg) ==
    IF IsError(lg[1].out) THEN Outcome("raised", lg[1].out)
    ELSE IF IsError(lg[2].out) THEN Outcome("raised", lg[2].out)
    ELSE IF op = "from_tortoise" THEN OutcomeOf(from_orm(cls, lg[2].out.ret))
    ELSE IF op = "from_queryset"
         THEN LET items == lg[2].out.items
                  bad == { i \in DOMAIN items : IsError(from_orm(cls, items[i])) }
              IN IF bad = {}
                 THEN Outcome("returned",
                        ListOf([i \in DOMAIN items |-> from_orm(cls, items[i])]))
                 ELSE Outcome("raised",
                        from_orm(cls, items[CHOOSE i \in bad : \A j \in bad : i <= j]))
    ELSE OutcomeOf(from_orm(cls, lg[2].out))

(***************************************************************************)
(* C1.  One from_tortoise call makes exactly one fetch_related call, with  *)
(* the relation set of the schema type's fetch_fields, then exactly one    *)
(* from_orm call whose argument is the refreshed record itself.            *)
(***************************************************************************)
C1_FromTortoiseConvertsRefreshedRecord ==
    \A c \in CallIds :
      (Done(c) /\ calls[c].op = "from_tortoise" /\ Delivered(c)) =>
        /\ Positions(c, "fetch_related") = {1}
        /\ Range(log[c][1].args) = Range(Configured(calls[c].cls))
        /\ Positions(c, "await") = {2}
        /\ Positions(c, "from_orm") = {3}
        /\ log[c][3].arg = log[c][2].out.instance

(***************************************************************************)
(* C2.  TortoiseSchema.from_queryset over an ordered result r1..rn returns *)
(* a list of exactly n schema instances, the i-th being the conversion of  *)
(* r_i; an empty result gives an empty list.                               *)
(***************************************************************************)
C2_FromQuerysetPreservesOrder ==
    \A c \in CallIds :
      (Done(c) /\ calls[c].op = "from_queryset" /\ Delivered(c)) =>
        LET items == log[c][2].out.items
            cls == calls[c].cls
        IN (\A i \in DOMAIN items : ~IsError(from_orm(cls, items[i]))) =>
             /\ calls[c].pc = "returned"
             /\ calls[c].value.kind = "list"
             /\ Len(calls[c].value.items) = Len(items)
             /\ \A i \in DOMAIN items :
                  calls[c].value.items[i] = from_orm(cls, items[i])

C2_Witness ==
    \E c, d \in CallIds :
      /\ c # d
      /\ Done(c) /\ calls[c].op = "from_queryset" /\ calls[c].pc = "returned"
      /\ Len(calls[c].value.items) >= 2
      /\ calls[c].value.items[1].id # calls[c].value.items[2].id
      /\ Done(d) /\ calls[d].op = "from_queryset" /\ calls[d].pc = "returned"
      /\ Delivered(d) /\ log[d][2].out.items = <<>>
      /\ calls[d].value = ListOf(<<>>)

(***************************************************************************)
(* C3.  In every adapter operation the set of relation names passed to     *)
(* fetch_related / prefetch_related is exactly the set of names in the     *)
(* schema type's fetch_fields, whatever their order.                       *)
(***************************************************************************)
C3_AugmentedWithExactlyConfigured ==
    \A c \in CallIds :
      Started(c) =>
        /\ AugmentPositions(c) = {1}
        /\ log[c][1].ev = IF calls[c].op = "from_tortoise"
                          THEN "fetch_related" ELSE "prefetch_related"
        /\ Range(log[c][1].args) = Range(Configured(calls[c].cls))

(***************************************************************************)
(* C4.  For a schema type whose relation list is empty or absent, the      *)
(* fetch of every adapter operation names no relation.                     *)
(***************************************************************************)
C4_EmptyListRequestsNothing ==
    \A c \in CallIds :
      (Started(c) /\ Configured(calls[c].cls) = <<>>) =>
        \A i \in AugmentPositions(c) : log[c][i].args = <<>>

C4_Witness ==
    \E c, d \in CallIds :
      /\ Started(c) /\ "fetch_fields" \notin DOMAIN declared[calls[c].cls]
      /\ AugmentPositions(c) = {1} /\ log[c][1].args = <<>>
      /\ Started(d) /\ "fetch_fields" \in DOMAIN declared[calls[d].cls]
      /\ declared[calls[d].cls].fetch_fields = Iterable("list", <<>>)
      /\ AugmentPositions(d) = {1} /\ log[d][1].args = <<>>

(***************************************************************************)
(* C5.  from_queryset_single over a request that resolves to one record r  *)
(* returns one schema instance, equal to from_orm(r).                      *)
(***************************************************************************)
C5_SingleEqualsDirectConversion ==
    \A c \in CallIds :
      (Done(c) /\ calls[c].op = "from_queryset_single" /\ Delivered(c)) =>
        LET r == log[c][2].out
            cls == calls[c].cls
        IN ~IsError(from_orm(cls, r)) =>
             /\ calls[c].pc = "returned"
             /\ calls[c].value.kind = "schema"
             /\ calls[c].value = from_orm(cls, r)

C5_Witness ==
    \E c \in CallIds :
      /\ Done(c) /\ calls[c].op = "from_queryset_single" /\ Delivered(c)
      /\ calls[c].pc = "returned"
      /\ calls[c].value.id = log[c][2].out.id
      /\ calls[c].value.rels = {"a", "a__b"}

(***************************************************************************)
(* C6.  A failure of the object source or of the converter ends the call   *)
(* with that same error: nothing is returned, nothing is called after the  *)
(* failure, no fetch is repeated, and after a failed fetch from_orm is     *)
(* never called.                                                           *)
(***************************************************************************)
C6_ErrorsPropagateUnchanged ==
    \A c \in CallIds :
      Done(c) =>
        /\ Failures(c) # {} =>
             /\ Failures(c) = {Len(log[c])}
             /\ calls[c].pc = "raised"
             /\ calls[c].value = EventError(log[c][Len(log[c])])
        /\ Failures(c) = {} =>
             /\ calls[c].pc = "returned"
             /\ ~IsError(calls[c].value)
        /\ (\E i \in DOMAIN log[c] : log[c][i].ev # "from_orm" /\ IsError(log[c][i].out))
             => Positions(c, "from_orm") = {}
        /\ Cardinality(AugmentPositions(c)) = 1
        /\ Cardinality(Positions(c, "await")) <= 1

C6_Witness ==
    \E c, d \in CallIds :
      /\ Done(c) /\ calls[c].op = "from_queryset" /\ calls[c].pc = "raised"
      /\ Cardinality(Positions(c, "from_orm")) = 2
      /\ calls[c].value = Error("ValidationError")
      /\ Done(d) /\ calls[d].pc = "raised"
      /\ calls[d].value = Error("OperationalError")
      /\ Positions(d, "from_orm") = {}

(***************************************************************************)
(* C7.  In every request-based operation the request is augmented exactly  *)
(* once, then awaited exactly once, and only then converted; no second     *)
(* fetch is issued.                                                        *)
(***************************************************************************)
C7_AugmentOnceThenResolveOnce ==
    \A c \in CallIds :
      (Started(c) /\ calls[c].op \in RequestOps) =>
        /\ Positions(c, "prefetch_related") = {1}
        /\ Positions(c, "fetch_related") = {}
        /\ Positions(c, "await") \subseteq {2}
        /\ (Finished(c) /\ ~IsError(log[c][1].out)) => Positions(c, "await") = {2}
        /\ calls[c].pc = "awaiting" => Len(log[c]) = 1
        /\ \A i \in Positions(c, "from_orm") : i > 2

C7_Witness ==
    \E c, d \in CallIds :
      /\ Done(c) /\ calls[c].op = "from_queryset" /\ calls[c].pc = "returned"
      /\ Len(log[c]) = 4
      /\ Done(d) /\ calls[d].op = "TortoiseListSchema.from_queryset"
      /\ calls[d].pc = "returned" /\ Len(log[d]) = 3

(***************************************************************************)
(* C8.  get_prefetch_fields on a schema type that defines no fetch_fields  *)
(* returns an empty sequence and never raises; on a type that defines      *)
(* fetch_fields it returns the sequence the type is configured with.       *)
(***************************************************************************)
C8_AccessorReturnsConfigured ==
    \A c \in CallIds :
      (calls[c].pc # "idle" /\ calls[c].op = "get_prefetch_fields") =>
        /\ calls[c].pc = "returned"
        /\ calls[c].value.names = Configured(calls[c].cls)

(***************************************************************************)
(* C9.  Calls in flight at the same time are independent: each call's      *)
(* fetch is augmented with its own schema type's relation list, and each   *)
(* call ends as it would have ended run alone.                             *)
(***************************************************************************)
C9_ConcurrentCallsIndependent ==
    \A c \in CallIds :
      (Started(c) /\ OtherInFlight(c)) =>
        /\ log[c][1].args = Configured(calls[c].cls)
        /\ Done(c) =>
             Outcome(calls[c].pc, calls[c].value)
               = RunAlone(calls[c].op, calls[c].cls, log[c])

(***************************************************************************)
(* C10.  No adapter operation changes any schema type's configuration,     *)
(* whether the call succeeds or fails, and once every call has been taken  *)
(* by its caller nothing of any call is left.                              *)
(***************************************************************************)
C10_ConfigurationUnchanged ==
    [][ /\ config' = config
        /\ (\A c \in CallIds : calls'[c].pc = "idle")
             => log' = [c \in CallIds |-> <<>>] ]_vars

====
